---- MODULE Spec2Model ----
(***************************************************************************)
(* Sequence-diagram to Event-B compiler (src/t1.py, src/index.py,          *)
(* src/test.py).  The repository holds three stand-alone versions of the   *)
(* compiler; `variant` names the one that runs.  A diagram is the sequence *)
(* of mxCell nodes in document order.  A compilation extracts the flows,   *)
(* generates the send/receive events, and the generated event system is    *)
(* then executed event by event.                                           *)
(***************************************************************************)
EXTENDS Integers, Sequences, FiniteSets, TLC

VARIABLES variant, diagram, pc, flows, events, vocab,
          sentMessages, sender, receiver, receivedMessages,
          senderdataMessages, currentMessage, receiverdataMessages,
          guardVars, sendCount, recvCount, file, raised, walk

vars == <<variant, diagram, pc, flows, events, vocab,
          sentMessages, sender, receiver, receivedMessages,
          senderdataMessages, currentMessage, receiverdataMessages,
          guardVars, sendCount, recvCount, file, raised, walk>>

\* The document file as the loader finds it, and the exception a request ended with.
loadVars == <<file, raised>>

runVars == <<sentMessages, sender, receiver, receivedMessages,
             senderdataMessages, currentMessage, receiverdataMessages,
             guardVars, sendCount, recvCount>>

\* ------------------------------------------------------------------ bounds
MaxEdges == 3
MaxFlows == 3
MaxFire == 2

Variants == {"t1", "index", "test"}

\* ------------------------------------------------------- diagram documents
\* A condition "[var op val]" found in a label; NoCond when the label has none.
NoCond == [var |-> "", op |-> "", val |-> 0, hi |-> 0]
Cond(v, o, k) == [var |-> v, op |-> o, val |-> k, hi |-> k]
RangeCond(v, lo, up) == [var |-> v, op |-> ":", val |-> lo, hi |-> up]

\* The text of a value attribute, already split the way the regular expressions
\* of the source split it: kw is the region keyword the text starts with, call
\* the leading identifier, paren whether a parenthesised list follows, args the
\* comma separated arguments, cond the bracketed predicate, lower whether the
\* text starts with a lower-case letter.
NoValue ==
    [kw |-> "", call |-> "", paren |-> FALSE, args |-> <<>>, cond |-> NoCond,
     lower |-> FALSE]
Label(c, a, low) ==
    [kw |-> "", call |-> c, paren |-> a # <<>>, args |-> a, cond |-> NoCond,
     lower |-> low]

\* num is FALSE when the text of a coordinate attribute is no number: float()
\* raises ValueError on it.
NoGeo == [has |-> FALSE, num |-> TRUE, x |-> 0, y |-> 0, w |-> 0, h |-> 0]
Geo(gx, gy, gw, gh) ==
    [has |-> TRUE, num |-> TRUE, x |-> gx, y |-> gy, w |-> gw, h |-> gh]
NoPoint == [has |-> FALSE, num |-> TRUE, x |-> 0, y |-> 0]
Point(px, py) == [has |-> TRUE, num |-> TRUE, x |-> px, y |-> py]

LifelineNode(i, name, gx, gw) ==
    [id |-> i, style |-> "umlLifeline", vertex |-> TRUE, edge |-> FALSE,
     parent |-> "1", value |-> Label(name, <<>>, FALSE), geo |-> Geo(gx, 0, gw, 400),
     source |-> "", target |-> "", sp |-> NoPoint, tp |-> NoPoint]

FrameNode(i, st, k, c, par, g) ==
    [id |-> i, style |-> st, vertex |-> TRUE, edge |-> FALSE,
     parent |-> par,
     value |-> [kw |-> k, call |-> k, paren |-> FALSE, args |-> <<>>, cond |-> c,
               lower |-> TRUE],
     geo |-> g, source |-> "", target |-> "", sp |-> NoPoint, tp |-> NoPoint]

TextNode(i, c, par, g) ==
    [id |-> i, style |-> "text", vertex |-> TRUE, edge |-> FALSE,
     parent |-> par,
     value |-> [kw |-> "", call |-> "", paren |-> FALSE, args |-> <<>>, cond |-> c,
               lower |-> FALSE],
     geo |-> g, source |-> "", target |-> "", sp |-> NoPoint, tp |-> NoPoint]

\* An edge: its geometry carries the vertical position y (attribute y and the
\* y of its source point) and the x of its two end points.
EdgeNode(i, lab, src, trg, s, t, gy) ==
    [id |-> i, style |-> "edgeStyle", vertex |-> FALSE, edge |-> TRUE,
     parent |-> "1", value |-> lab, geo |-> Geo(0, gy, 0, 0),
     source |-> src, target |-> trg,
     sp |-> IF s.has THEN Point(s.x, gy) ELSE NoPoint,
     tp |-> IF t.has THEN Point(t.x, gy) ELSE NoPoint]

HasValue(n) == n.value.call # "" \/ n.value.kw # "" \/ n.value.cond # NoCond

\* -------------------------------------------------------------- sequences
Range(s) == {s[i] : i \in DOMAIN s}

NoName == ""
Unknown == "Unknown"
\* "<name>_<ordinal>"; a bare message name is the identifier with ordinal 0.
MsgId(name, i) == [name |-> name, n |-> i]

\* sorted(flows, key=lambda x: x['y']): Python's sort is stable.
InsertByY(s, f) ==
    LET k == Cardinality({j \in 1..Len(s) : s[j].y <= f.y})
    IN  SubSeq(s, 1, k) \o <<f>> \o SubSeq(s, k + 1, Len(s))

RECURSIVE SortByY(_)
SortByY(s) ==
    IF s = <<>> THEN <<>>
    ELSE InsertByY(SortByY(SubSeq(s, 1, Len(s) - 1)), s[Len(s)])

\* ------------------------------------------------- t1.py: geometry resolver
\* id_to_elem = {e.get('id'): e for e in root.iter()}: the last node with the id.
NodeIndex(d, i) ==
    LET hits == {k \in 1..Len(d) : d[k].id = i}
    IN  IF hits = {} THEN 0 ELSE CHOOSE k \in hits : \A j \in hits : j <= k

\* Faulty parent walk, for comparison: the offset of the direct parent only.
ParentOffsetOneLevel(d, pid, fuel) ==
    IF pid = "" \/ pid = "1" \/ pid = "0" \/ fuel = 0 THEN [x |-> 0, y |-> 0]
    ELSE LET k == NodeIndex(d, pid)
         IN  IF k = 0 \/ ~d[k].geo.has THEN [x |-> 0, y |-> 0]
             ELSE [x |-> d[k].geo.x, y |-> d[k].geo.y]

\* The while loop of get_abs_geom, taken at most `fuel` times.
RECURSIVE ParentOffset(_, _, _)
ParentOffset(d, pid, fuel) ==
    IF pid = "" \/ pid = "1" \/ pid = "0" \/ fuel = 0 THEN [x |-> 0, y |-> 0]
    ELSE LET k == NodeIndex(d, pid)
         IN  IF k = 0 THEN [x |-> 0, y |-> 0]
             ELSE LET up == ParentOffset(d, d[k].parent, fuel - 1)
                  IN  IF d[k].geo.has
                      THEN [x |-> d[k].geo.x + up.x, y |-> d[k].geo.y + up.y]
                      ELSE up

\* float() succeeds on the geometry of every node of the parent chain.
RECURSIVE ChainNumeric(_, _, _)
ChainNumeric(d, pid, fuel) ==
    IF pid = "" \/ pid = "1" \/ pid = "0" \/ fuel = 0 THEN TRUE
    ELSE LET k == NodeIndex(d, pid)
         IN  IF k = 0 THEN TRUE
             ELSE /\ (d[k].geo.has => d[k].geo.num)
                  /\ ChainNumeric(d, d[k].parent, fuel - 1)

\* get_abs_geom: None (has = FALSE) for a node without mxGeometry, and when a
\* float() of the node or of its parent chain raises.
AbsGeom(d, n) ==
    IF ~n.geo.has \/ ~n.geo.num \/ ~ChainNumeric(d, n.parent, Len(d)) THEN NoGeo
    ELSE LET off == ParentOffset(d, n.parent, Len(d))
         IN  Geo(n.geo.x + off.x, n.geo.y + off.y, n.geo.w, n.geo.h)

\* The while loop of get_abs_geom has no bound of its own: on a parent chain
\* that never reaches a root sentinel or a missing node it does not end.  A
\* chain longer than the document has visited some node twice.
RECURSIVE NeverEnds(_, _, _)
NeverEnds(d, pid, fuel) ==
    IF pid = "" \/ pid = "1" \/ pid = "0" THEN FALSE
    ELSE IF fuel = 0 THEN TRUE
    ELSE LET k == NodeIndex(d, pid)
         IN  IF k = 0 THEN FALSE ELSE NeverEnds(d, d[k].parent, fuel - 1)

\* get_abs_geom(n) does not return: no float() raises on the way round.
WalkDiverges(d, n) ==
    /\ n.geo.has /\ n.geo.num
    /\ ChainNumeric(d, n.parent, Len(d))
    /\ NeverEnds(d, n.parent, Len(d) + 1)

\* The state of one call of get_abs_geom: the node, the parent id the loop
\* looks at next, the box so far and the iterations taken.
NoWalk == [node |-> 0, cur |-> "", box |-> NoGeo, steps |-> 0, state |-> "idle"]

WalkStart(d, k) ==
    IF ~d[k].geo.has \/ ~d[k].geo.num
    THEN [node |-> k, cur |-> "", box |-> NoGeo, steps |-> 0, state |-> "returned"]
    ELSE [node |-> k, cur |-> d[k].parent,
          box |-> Geo(d[k].geo.x, d[k].geo.y, d[k].geo.w, d[k].geo.h),
          steps |-> 0, state |-> "walking"]

\* --------------------------------------------- t1.py: phase 1, the scopes
FrameKeywords == {"opt", "alt", "loop", "par", "break"}
FrameStyles == {"umlFrame", "sysml.package"}

\* .replace('==', '=').replace(':=', '=')
NormCond(c) == IF c.op \in {"==", ":="} THEN [c EXCEPT !.op = "="] ELSE c

\* The suffix kind of a vertex, "" when the node is no region.
ScopeKind(n) ==
    IF ~n.vertex THEN ""
    ELSE IF n.value.kw \in FrameKeywords THEN n.value.kw
    ELSE IF n.style \in FrameStyles THEN "opt"
    ELSE ""

IsScopeNode(d, n) == ScopeKind(n) # "" /\ AbsGeom(d, n).has

MakeScope(d, n, counter) ==
    LET g == AbsGeom(d, n)
    IN  [id |-> n.id, type |-> <<ScopeKind(n), counter>>,
         y_start |-> g.y, y_end |-> g.y + g.h,
         x_start |-> g.x, x_end |-> g.x + g.w,
         height |-> g.h,
         condition |-> NormCond(n.value.cond)]

\* Phase 1.1: one scope per region node, numbered by the shared frag_counter.
RECURSIVE ScopesFrom(_, _, _)
ScopesFrom(d, i, counter) ==
    IF i > Len(d) THEN <<>>
    ELSE IF IsScopeNode(d, d[i])
         THEN <<MakeScope(d, d[i], counter)>> \o ScopesFrom(d, i + 1, counter + 1)
         ELSE ScopesFrom(d, i + 1, counter)

\* Phase 1.2 for one label node carrying a bracketed predicate.
FloatTolerance == 40
IsGuardLabel(d, n) ==
    /\ n.vertex
    /\ n.value.kw \notin {"opt", "alt", "loop", "par"}
    /\ n.value.cond # NoCond
    /\ AbsGeom(d, n).has

Contains(sc, tx, ty) ==
    /\ sc.x_start <= tx /\ tx <= sc.x_end
    /\ sc.y_start - FloatTolerance <= ty /\ ty <= sc.y_end

\* Faulty guard assignment, for comparison: the label is written to the parent
\* scope, or to the first scope around it, whether or not a guard is there.
AssignGuardOverwrite(d, scopes, n) ==
    LET g == AbsGeom(d, n)
        c == NormCond(n.value.cond)
        parents == {k \in 1..Len(scopes) : scopes[k].id = n.parent}
        spatial == {k \in 1..Len(scopes) : Contains(scopes[k], g.x, g.y)}
    IN  IF parents # {}
        THEN [scopes EXCEPT ![CHOOSE j \in parents : \A m \in parents : j <= m].condition = c]
        ELSE IF spatial # {}
        THEN [scopes EXCEPT ![CHOOSE j \in spatial : \A m \in spatial : j <= m].condition = c]
        ELSE scopes

AssignGuard(d, scopes, n) ==
    LET g == AbsGeom(d, n)
        c == NormCond(n.value.cond)
        parents == {k \in 1..Len(scopes) : scopes[k].id = n.parent}
        spatial == {k \in 1..Len(scopes) :
                        Contains(scopes[k], g.x, g.y) /\ scopes[k].condition = NoCond}
    IN  IF parents # {}
        THEN LET k == CHOOSE j \in parents : \A m \in parents : j <= m
             IN  IF scopes[k].condition = NoCond
                 THEN [scopes EXCEPT ![k].condition = c] ELSE scopes
        ELSE IF spatial # {}
        THEN LET k == CHOOSE j \in spatial : \A m \in spatial : j <= m
             IN  [scopes EXCEPT ![k].condition = c]
        ELSE scopes

RECURSIVE GuardsFrom(_, _, _)
GuardsFrom(d, i, scopes) ==
    IF i > Len(d) THEN scopes
    ELSE IF IsGuardLabel(d, d[i])
         THEN GuardsFrom(d, i + 1, AssignGuard(d, scopes, d[i]))
         ELSE GuardsFrom(d, i + 1, scopes)

ExtractScopes(d) == GuardsFrom(d, 1, ScopesFrom(d, 1, 1))

\* fragment_scopes when the loop of phase 1.2 has visited the first n nodes.
RECURSIVE GuardSteps(_, _)
GuardSteps(d, n) ==
    IF n = 0 THEN ScopesFrom(d, 1, 1)
    ELSE IF IsGuardLabel(d, d[n])
         THEN AssignGuard(d, GuardSteps(d, n - 1), d[n])
         ELSE GuardSteps(d, n - 1)

\* ------------------------------------------- t1.py: phase 2, the lifelines
LifelineStyles == {"umlLifeline", "participant", "shape=umlActor"}

RECURSIVE T1LifelinesFrom(_, _)
T1LifelinesFrom(d, i) ==
    IF i > Len(d) THEN <<>>
    ELSE LET n == d[i]
             g == AbsGeom(d, n)
         IN  (IF n.style \in LifelineStyles /\ HasValue(n) /\ g.has
              THEN <<[name |-> n.value.call, center_x |-> g.x + (g.w \div 2)]>>
              ELSE <<>>) \o T1LifelinesFrom(d, i + 1)

Abs(v) == IF v < 0 THEN -v ELSE v

MatchThreshold == 150

\* Faulty resolution, for comparison: the nearest lifeline at any distance.
FindClosestAnyDistance(lifelines, tx) ==
    IF lifelines = <<>> THEN Unknown
    ELSE LET dist(k) == Abs(lifelines[k].center_x - tx)
             best == CHOOSE k \in 1..Len(lifelines) :
                        \A j \in 1..Len(lifelines) :
                            dist(k) < dist(j) \/ (dist(k) = dist(j) /\ k <= j)
         IN  lifelines[best].name

\* find_closest_lifeline: the first lifeline at the least distance, "Unknown"
\* beyond the threshold or without lifelines.
FindClosest(lifelines, tx) ==
    IF lifelines = <<>> THEN Unknown
    ELSE LET dist(k) == Abs(lifelines[k].center_x - tx)
             best == CHOOSE k \in 1..Len(lifelines) :
                        \A j \in 1..Len(lifelines) :
                            dist(k) < dist(j) \/ (dist(k) = dist(j) /\ k <= j)
         IN  IF dist(best) > MatchThreshold THEN Unknown ELSE lifelines[best].name

\* --------------------------------------------- t1.py: phase 3, the flows
\* Faulty scope matching, for comparison: the last scope around y wins, whatever its height.
MatchScopeLast(scopes, y) ==
    LET inside == {k \in 1..Len(scopes) :
                      scopes[k].y_start <= y /\ y <= scopes[k].y_end}
    IN  IF inside = {} THEN 0
        ELSE CHOOSE k \in inside : \A j \in inside : j <= k

\* Scope matching: the first scope of the least height among those whose
\* vertical span holds y.
MatchScope(scopes, y) ==
    LET inside == {k \in 1..Len(scopes) :
                      scopes[k].y_start <= y /\ y <= scopes[k].y_end}
    IN  IF inside = {} THEN 0
        ELSE CHOOSE k \in inside :
                \A j \in inside :
                    scopes[k].height < scopes[j].height
                    \/ (scopes[k].height = scopes[j].height /\ k <= j)

T1SourceName(lifelines, n) ==
    IF n.geo.has /\ n.sp.has THEN FindClosest(lifelines, n.sp.x) ELSE NoName

T1TargetName(lifelines, n) ==
    LET t == IF n.geo.has /\ n.tp.has THEN FindClosest(lifelines, n.tp.x) ELSE NoName
    IN  IF t = NoName THEN Unknown ELSE t

T1Retained(lifelines, n) ==
    /\ n.edge
    /\ n.value.call # ""
    /\ T1SourceName(lifelines, n) \notin {NoName, Unknown}

\* data_param = m.group(2).split(',')[0].strip(): the first argument only.
T1Data(n) ==
    IF n.value.paren /\ n.value.args # <<>> /\ n.value.args[1] # ""
    THEN << <<n.value.args[1]>> >> ELSE <<>>

T1Flow(scopes, lifelines, n, i) ==
    LET y == IF n.geo.has /\ n.sp.has THEN n.sp.y ELSE 0
        k == MatchScope(scopes, y)
    IN  [msg |-> n.value.call,
         from |-> T1SourceName(lifelines, n),
         to |-> T1TargetName(lifelines, n),
         data |-> T1Data(n),
         y |-> y,
         opt_suffix |-> IF k = 0 THEN <<>> ELSE scopes[k].type,
         guard_cond |-> IF k = 0 THEN NoCond ELSE scopes[k].condition,
         index |-> 0,
         eid |-> i]

RECURSIVE T1FlowsFrom(_, _, _, _)
T1FlowsFrom(d, scopes, lifelines, i) ==
    IF i > Len(d) THEN <<>>
    ELSE (IF T1Retained(lifelines, d[i])
          THEN <<T1Flow(scopes, lifelines, d[i], i)>> ELSE <<>>)
         \o T1FlowsFrom(d, scopes, lifelines, i + 1)

\* float() of a source or target point attribute of a labelled edge raises.
T1Raises(d) ==
    \E k \in 1..Len(d) :
        /\ d[k].edge /\ d[k].value.call # "" /\ d[k].geo.has
        /\ (d[k].sp.has /\ ~d[k].sp.num) \/ (d[k].tp.has /\ ~d[k].tp.num)

\* extract_sequence_from_xml: the outer except returns [] for the whole
\* document when any statement of the body raises.
T1ExtractSequence(d) ==
    IF T1Raises(d) THEN <<>>
    ELSE SortByY(T1FlowsFrom(d, ExtractScopes(d), T1LifelinesFrom(d, 1), 1))

\* ------------------------------------------ index.py: the detailed sequence
\* lifelines[elem.get('id')] = name: the last umlLifeline node with the id.
IndexLifelineName(d, i) ==
    LET hits == {k \in 1..Len(d) : d[k].style = "umlLifeline" /\ d[k].id = i}
    IN  IF hits = {} THEN Unknown
        ELSE d[CHOOSE k \in hits : \A j \in hits : j <= k].value.call

IndexRetained(n) == n.edge /\ HasValue(n) /\ n.value.call # ""

\* data_name = match.group(2).strip(): the whole argument list, not split.
IndexData(n) == IF n.value.paren /\ n.value.args # <<>> THEN <<n.value.args>> ELSE <<>>

IndexEdge(d, n, i) ==
    [msg |-> n.value.call,
     from |-> IndexLifelineName(d, n.source),
     to |-> IndexLifelineName(d, n.target),
     data |-> IndexData(n),
     y |-> IF n.geo.has THEN n.geo.y ELSE 0,
     opt_suffix |-> <<>>,
     guard_cond |-> NoCond,
     index |-> 0,
     eid |-> i]

RECURSIVE IndexEdgesFrom(_, _)
IndexEdgesFrom(d, i) ==
    IF i > Len(d) THEN <<>>
    ELSE (IF IndexRetained(d[i]) THEN <<IndexEdge(d, d[i], i)>> ELSE <<>>)
         \o IndexEdgesFrom(d, i + 1)

\* y_pos = float(geo.get('y', 0)) raises on an edge with a value; nothing in
\* extract_detailed_sequence or its callers catches it.
IndexRaises(d) ==
    \E k \in 1..Len(d) :
        d[k].edge /\ HasValue(d[k]) /\ d[k].geo.has /\ ~d[k].geo.num

\* extract_detailed_sequence
IndexExtractSequence(d) ==
    IF IndexRaises(d) THEN <<>> ELSE SortByY(IndexEdgesFrom(d, 1))

\* --------------------------------------------- test.py: the message list
TestLifelineName(d, i) ==
    LET hits == {k \in 1..Len(d) :
                    d[k].style = "umlLifeline" /\ d[k].id = i /\ d[k].id # ""
                    /\ HasValue(d[k])}
    IN  IF hits = {} THEN NoName
        ELSE d[CHOOSE k \in hits : \A j \in hits : j <= k].value.call

TestRetained(d, n) ==
    /\ n.edge
    /\ HasValue(n)
    /\ n.source # "" /\ n.target # ""
    /\ TestLifelineName(d, n.source) # NoName
    /\ TestLifelineName(d, n.target) # NoName
    /\ n.value.call # ""

\* Every argument is a data parameter; a bare lower-case label is its own.
TestData(n) ==
    IF n.value.paren THEN [k \in 1..Len(n.value.args) |-> <<n.value.args[k]>>]
    ELSE IF n.value.lower THEN << <<n.value.call>> >>
    ELSE <<>>

TestMessage(d, n, i, idx) ==
    [msg |-> n.value.call,
     from |-> TestLifelineName(d, n.source),
     to |-> TestLifelineName(d, n.target),
     data |-> TestData(n),
     y |-> IF n.geo.has THEN n.geo.y ELSE 0,
     opt_suffix |-> <<>>,
     guard_cond |-> NoCond,
     index |-> idx,
     eid |-> i]

RECURSIVE TestMessagesFrom(_, _, _)
TestMessagesFrom(d, i, idx) ==
    IF i > Len(d) THEN <<>>
    ELSE IF TestRetained(d, d[i])
         THEN <<TestMessage(d, d[i], i, idx)>> \o TestMessagesFrom(d, i + 1, idx + 1)
         ELSE TestMessagesFrom(d, i + 1, idx)

\* extract_messages_from_xml: document order, no sort.
TestExtractMessages(d) == TestMessagesFrom(d, 1, 1)

\* ------------------------------------------------------ the three extractors
ExtractFlows(v, d) ==
    CASE v = "t1" -> T1ExtractSequence(d)
      [] v = "index" -> IndexExtractSequence(d)
      [] OTHER -> TestExtractMessages(d)

\* The ordinal the generator gives the flow at position i.
Ordinal(v, fl, i) == IF v = "test" THEN fl[i].index ELSE i
InstanceOf(v, fl, i) == MsgId(fl[i].msg, Ordinal(v, fl, i))

\* --------------------------------------------------- the generated events
NoMsg == MsgId("", 0)
Grd(t, m, o, c) == [t |-> t, m |-> m, o |-> o, c |-> c]
Act(t, m, o, dt) == [t |-> t, m |-> m, o |-> o, d |-> dt]

SendActions(m, f) ==
    <<Act("addSent", m, "", <<>>),
      Act("addSender", m, f.from, <<>>),
      Act("addReceiver", m, f.to, <<>>),
      Act("clearReceived", NoMsg, "", <<>>)>>
    \o [k \in 1..Len(f.data) |-> Act("addSenderData", m, "", f.data[k])]
    \o <<Act("setCurrent", m, "", <<>>)>>

\* Weakened receive guards, for comparison: only grd4 is kept.
RecvGuardsOnlyNotReceived(m, f) == <<Grd("notReceived", m, "", NoCond)>>

RecvGuards(m, f) ==
    <<Grd("isSent", m, "", NoCond),
      Grd("senderIs", m, f.from, NoCond),
      Grd("receiverIs", m, f.to, NoCond),
      Grd("notReceived", m, "", NoCond),
      Grd("currentIs", m, "", NoCond)>>

\* Faulty receive actions, for comparison: currentMessage is not emptied.
RecvActionsKeepCurrent(m, f) ==
    <<Act("addReceived", m, "", <<>>)>>
    \o [k \in 1..Len(f.data) |-> Act("addReceiverData", m, "", f.data[k])]

RecvActions(m, f) ==
    <<Act("addReceived", m, "", <<>>)>>
    \o [k \in 1..Len(f.data) |-> Act("addReceiverData", m, "", f.data[k])]
    \o <<Act("clearCurrent", NoMsg, "", <<>>)>>

\* Weakened send guards, for comparison: grd2 left out, grd1 left out.
BaseSendGuardsNoCurrent(m) == <<Grd("notSent", m, "", NoCond)>>
BaseSendGuardsNoSent(m) == <<Grd("noCurrent", NoMsg, "", NoCond)>>

BaseSendGuards(m) ==
    <<Grd("notSent", m, "", NoCond), Grd("noCurrent", NoMsg, "", NoCond)>>

\* Faulty send guards, for comparison: the scope condition is left out.
T1SendGuardsNoScopeGuard(fl, i) == BaseSendGuards(MsgId(fl[i].msg, i))

\* t1.py generate_events: grd1, grd2 and the scope condition when there is one.
T1SendGuards(fl, i) ==
    BaseSendGuards(MsgId(fl[i].msg, i))
    \o (IF fl[i].guard_cond # NoCond
        THEN <<Grd("cond", NoMsg, "", fl[i].guard_cond)>> ELSE <<>>)

\* index.py generate_step_events: grd1, grd2 and, after the first flow, grd3.
IndexSendGuards(fl, i) ==
    BaseSendGuards(MsgId(fl[i].msg, i))
    \o (IF i > 1
        THEN <<Grd("prevReceived", MsgId(fl[i - 1].msg, i - 1), "", NoCond)>>
        ELSE <<>>)

\* test.py generate_events: grd1 and grd2 only.
TestSendGuards(fl, i) == BaseSendGuards(MsgId(fl[i].msg, fl[i].index))

SendGuards(v, fl, i) ==
    CASE v = "t1" -> T1SendGuards(fl, i)
      [] v = "index" -> IndexSendGuards(fl, i)
      [] OTHER -> TestSendGuards(fl, i)

SendEvent(v, fl, i) ==
    LET m == InstanceOf(v, fl, i)
    IN  [kind |-> "send", inst |-> m, suffix |-> fl[i].opt_suffix, pos |-> i,
         grd |-> SendGuards(v, fl, i), act |-> SendActions(m, fl[i])]

RecvEvent(v, fl, i) ==
    LET m == InstanceOf(v, fl, i)
    IN  [kind |-> "receive", inst |-> m, suffix |-> fl[i].opt_suffix, pos |-> i,
         grd |-> RecvGuards(m, fl[i]), act |-> RecvActions(m, fl[i])]

\* Faulty generator, for comparison: the receive event of the last flow is not appended.
GenerateEventsLastSendOnly(v, fl) ==
    [k \in 1..(2 * Len(fl) - 1) |->
        IF k % 2 = 1 THEN SendEvent(v, fl, (k + 1) \div 2)
        ELSE RecvEvent(v, fl, k \div 2)]

\* events.append(send); events.append(receive), flow after flow.
GenerateEvents(v, fl) ==
    [k \in 1..(2 * Len(fl)) |->
        IF k % 2 = 1 THEN SendEvent(v, fl, (k + 1) \div 2)
        ELSE RecvEvent(v, fl, k \div 2)]

\* ------------------------------------------------------- the vocabularies
\* t1.py/test.py extract_objects_from_xml: the names of the umlLifeline nodes.
LifelineObjects(d) ==
    {d[k].value.call : k \in {j \in 1..Len(d) :
                                d[j].style = "umlLifeline" /\ HasValue(d[j])}}

\* t1.py extract_messages_and_data: every labelled edge, whatever its ends.
T1Messages(d) ==
    {MsgId(d[k].value.call, 0) :
        k \in {j \in 1..Len(d) : d[j].edge /\ d[j].value.call # ""}}

T1DataMessages(d) ==
    UNION {{<<d[k].value.args[a]>> : a \in 1..Len(d[k].value.args)} :
            k \in {j \in 1..Len(d) :
                    d[j].edge /\ d[j].value.call # "" /\ d[j].value.paren}}

Instances(v, fl) == {InstanceOf(v, fl, i) : i \in 1..Len(fl)}
FlowData(fl) == UNION {Range(fl[i].data) : i \in 1..Len(fl)}

\* apply_rules_full
T1Vocab(d, fl) ==
    [objects |-> LifelineObjects(d),
     messages |-> T1Messages(d),
     msgConstants |-> T1Messages(d) \cup Instances("t1", fl),
     data |-> T1DataMessages(d)]

\* apply_rules_1_and_2
IndexVocab(d, fl) ==
    [objects |-> {fl[i].from : i \in 1..Len(fl)} \cup {fl[i].to : i \in 1..Len(fl)},
     messages |-> {MsgId(fl[i].msg, 0) : i \in 1..Len(fl)} \cup Instances("index", fl),
     msgConstants |-> {MsgId(fl[i].msg, 0) : i \in 1..Len(fl)}
                        \cup Instances("index", fl),
     data |-> FlowData(fl)]

\* apply_rules_1_to_5
TestVocab(d, fl) ==
    [objects |-> LifelineObjects(d),
     messages |-> Instances("test", fl),
     msgConstants |-> Instances("test", fl),
     data |-> FlowData(fl)]

Vocabulary(v, d) ==
    CASE v = "t1" -> T1Vocab(d, ExtractFlows(v, d))
      [] v = "index" -> IndexVocab(d, ExtractFlows(v, d))
      [] OTHER -> TestVocab(d, ExtractFlows(v, d))

NoVocab == [objects |-> {}, messages |-> {}, msgConstants |-> {}, data |-> {}]

\* ------------------------------------- t1.py: the guard variable table
EqOps == {"=", "==", ":="}
RangeOps == {":", "in"}
CmpOps == {"<", ">", "<=", ">=", "!="}

\* Faulty classification, for comparison: a comparison always writes its default.
ClassifyVarCmpWrites(tbl, n) ==
    LET c == n.value.cond
    IN  IF ~HasValue(n) \/ c = NoCond THEN tbl
        ELSE IF c.op \in EqOps
        THEN (c.var :> [val |-> c.val, hi |-> c.val, op |-> ":="]) @@ tbl
        ELSE IF c.op \in RangeOps
        THEN (c.var :> [val |-> c.val, hi |-> c.hi, op |-> "::"]) @@ tbl
        ELSE IF c.op \in CmpOps
        THEN (c.var :> [val |-> 0, hi |-> 0, op |-> ":="]) @@ tbl
        ELSE tbl

ClassifyVar(tbl, n) ==
    LET c == n.value.cond
    IN  IF ~HasValue(n) \/ c = NoCond THEN tbl
        ELSE IF c.op \in EqOps
        THEN (c.var :> [val |-> c.val, hi |-> c.val, op |-> ":="]) @@ tbl
        ELSE IF c.op \in RangeOps
        THEN (c.var :> [val |-> c.val, hi |-> c.hi, op |-> "::"]) @@ tbl
        ELSE IF c.op \in CmpOps /\ c.var \notin DOMAIN tbl
        THEN (c.var :> [val |-> 0, hi |-> 0, op |-> ":="]) @@ tbl
        ELSE tbl

RECURSIVE VarsFrom(_, _, _)
VarsFrom(d, i, tbl) ==
    IF i > Len(d) THEN tbl ELSE VarsFrom(d, i + 1, ClassifyVar(tbl, d[i]))

\* extract_variables_from_fragments
ExtractVariables(d) == VarsFrom(d, 1, <<>>)

\* The guard variables a machine declares: only t1.py declares any.
VarTable(v, d) == IF v = "t1" THEN ExtractVariables(d) ELSE <<>>

\* INITIALISATION act8..: var := val, or var :: lo..hi.
InitialGuardVars(tbl) ==
    {g \in [DOMAIN tbl -> UNION {tbl[x].val..tbl[x].hi : x \in DOMAIN tbl}] :
        \A x \in DOMAIN tbl : tbl[x].val <= g[x] /\ g[x] <= tbl[x].hi}

\* ------------------------------------------ the generated event system
\* The value of a guard predicate in the current state.
EvalCond(c) ==
    IF c.var \notin DOMAIN guardVars THEN FALSE
    ELSE LET x == guardVars[c.var]
         IN  CASE c.op = "=" -> x = c.val
               [] c.op = "<" -> x < c.val
               [] c.op = ">" -> x > c.val
               [] c.op = "<=" -> x <= c.val
               [] c.op = ">=" -> x >= c.val
               [] c.op = "!=" -> x # c.val
               [] c.op \in RangeOps -> c.val <= x /\ x <= c.hi
               [] OTHER -> FALSE

EvalGuard(g) ==
    CASE g.t = "notSent" -> g.m \notin sentMessages
      [] g.t = "noCurrent" -> currentMessage = {}
      [] g.t = "prevReceived" -> g.m \in receivedMessages
      [] g.t = "cond" -> EvalCond(g.c)
      [] g.t = "isSent" -> g.m \in sentMessages
      [] g.t = "senderIs" -> <<g.m, g.o>> \in sender
      [] g.t = "receiverIs" -> <<g.m, g.o>> \in receiver
      [] g.t = "notReceived" -> g.m \notin receivedMessages
      [] g.t = "currentIs" -> currentMessage = {g.m}
      [] OTHER -> FALSE

Enabled(e) == \A k \in 1..Len(e.grd) : EvalGuard(e.grd[k])

Of(e, t) == {e.act[k] : k \in {j \in 1..Len(e.act) : e.act[j].t = t}}

\* The actions of one event, all taken at once on the state before it.
Apply(e) ==
    /\ sentMessages' = sentMessages \cup {a.m : a \in Of(e, "addSent")}
    /\ sender' = sender \cup {<<a.m, a.o>> : a \in Of(e, "addSender")}
    /\ receiver' = receiver \cup {<<a.m, a.o>> : a \in Of(e, "addReceiver")}
    /\ receivedMessages' =
          IF Of(e, "clearReceived") # {} THEN {}
          ELSE receivedMessages \cup {a.m : a \in Of(e, "addReceived")}
    /\ senderdataMessages' =
          senderdataMessages \cup {<<a.m, a.d>> : a \in Of(e, "addSenderData")}
    /\ receiverdataMessages' =
          receiverdataMessages \cup {<<a.m, a.d>> : a \in Of(e, "addReceiverData")}
    /\ currentMessage' =
          IF Of(e, "setCurrent") # {} THEN {a.m : a \in Of(e, "setCurrent")}
          ELSE IF Of(e, "clearCurrent") # {} THEN {}
          ELSE currentMessage
    /\ UNCHANGED guardVars

\* ------------------------------------------------------------ the inputs
BaseNodes ==
    <<LifelineNode("lA", "A", 60, 80),
      LifelineNode("lB", "B", 260, 80),
      LifelineNode("lC", "C", 460, 80)>>

InnerBox == Geo(40, 60, 520, 60)
OuterBox == Geo(20, 20, 560, 120)

ScopeLayouts ==
    {<<>>,
     <<FrameNode("f1", "umlFrame", "opt", Cond("valid", "=", 1), "1", InnerBox)>>,
     <<FrameNode("f1", "umlFrame", "alt", Cond("mode", "==", 2), "1", OuterBox),
       FrameNode("f2", "umlFrame", "opt", NoCond, "1", InnerBox)>>,
     <<FrameNode("f1", "umlFrame", "opt", Cond("valid", "=", 1), "1", InnerBox),
       FrameNode("f2", "umlFrame", "loop", NoCond, "1", OuterBox),
       TextNode("t1", Cond("amount", ">", 0), "1", Geo(30, 10, 40, 20))>>}

FarX == [has |-> TRUE, x |-> 900]
NoX == [has |-> FALSE, x |-> 0]
AtX(v) == [has |-> TRUE, x |-> v]

\* label, source id, target id, source point, target point
EdgeKinds ==
    {<<Label("login", <<"user">>, TRUE), "lA", "lB", AtX(100), AtX(300)>>,
     <<Label("ack", <<>>, TRUE), "lB", "lA", AtX(300), AtX(100)>>,
     <<Label("ping", <<"x">>, TRUE), "", "lB", FarX, AtX(300)>>,
     <<Label("Notify", <<>>, FALSE), "lA", "", AtX(100), NoX>>}

YValues == {40, 80}

MakeEdge(k, y) == EdgeNode("e", k[1], k[2], k[3], k[4], k[5], y)

EdgeCount(d) == Cardinality({k \in 1..Len(d) : d[k].edge})

\* The i-th flow of a dialogue: A to B and back in turn.
RunEdge(i, y) ==
    IF i % 2 = 1
    THEN EdgeNode("e", Label("login", <<"user">>, TRUE), "lA", "lB", AtX(100), AtX(300), y)
    ELSE EdgeNode("e", Label("ack", <<>>, TRUE), "lB", "lA", AtX(300), AtX(100), y)

\* ------------------------------------------------------ the diagram loader
\* An exception: its type and the cause it was raised from.
NoError == [kind |-> "", cause |-> ""]
Error(k, c) == [kind |-> k, cause |-> c]

\* A document file: parse is the outcome of ET.parse on it, outer the cells of
\* the tree it parses to, payload the <diagram> element ("none": no such
\* element, "empty": no text in it), b64/inflate/utf8/reparse whether that
\* stage of the decode chain succeeds on the text, inner the cells of the
\* decoded tree.
NoFile ==
    [parse |-> "", outer |-> <<>>, payload |-> "none", b64 |-> FALSE,
     inflate |-> FALSE, utf8 |-> FALSE, reparse |-> FALSE, inner |-> <<>>]

\* The try block around the decode chain: "ok", or the exception of the first
\* stage that raises.  urllib.parse.unquote raises nothing.
DecodeChain(f) ==
    IF ~f.b64 THEN "binascii.Error"
    ELSE IF ~f.inflate THEN "zlib.error"
    ELSE IF ~f.utf8 THEN "UnicodeDecodeError"
    ELSE IF ~f.reparse THEN "ParseError"
    ELSE "ok"

\* Faulty loader, for comparison: only the decode stages are caught, the
\* re-parse of the decoded text is not.
ExtractXmlRootReparseEscapes(f) ==
    IF f.parse # "ok" THEN [tree |-> <<>>, raised |-> Error("RuntimeError", f.parse)]
    ELSE IF f.payload = "text"
    THEN IF DecodeChain(f) = "ok" THEN [tree |-> f.inner, raised |-> NoError]
         ELSE IF DecodeChain(f) = "ParseError"
         THEN [tree |-> <<>>, raised |-> Error("RuntimeError", "ParseError")]
         ELSE [tree |-> f.outer, raised |-> NoError]
    ELSE [tree |-> f.outer, raised |-> NoError]

\* index.py extract_xml_root
ExtractXmlRoot(f) ==
    IF f.parse # "ok" THEN [tree |-> <<>>, raised |-> Error("RuntimeError", f.parse)]
    ELSE IF f.payload = "text"
    THEN IF DecodeChain(f) = "ok" THEN [tree |-> f.inner, raised |-> NoError]
         ELSE [tree |-> f.outer, raised |-> NoError]
    ELSE [tree |-> f.outer, raised |-> NoError]

\* Faulty parse, for comparison: the failure is swallowed and an empty tree used.
ParseOnlySwallows(f) ==
    IF f.parse # "ok" THEN [tree |-> <<>>, raised |-> NoError]
    ELSE [tree |-> f.outer, raised |-> NoError]

\* t1.py / test.py: ET.parse(xml_path) and nothing else; extract_base_name_from_xml
\* turns its failure into a RuntimeError.
ParseOnly(f) ==
    IF f.parse # "ok" THEN [tree |-> <<>>, raised |-> Error("RuntimeError", f.parse)]
    ELSE [tree |-> f.outer, raised |-> NoError]

LoadTree(v, f) == IF v = "index" THEN ExtractXmlRoot(f) ELSE ParseOnly(f)

ParseOutcomes == {"ok", "ParseError", "OSError"}
Payloads == {"none", "empty", "text"}

\* The cells of the decoded payload, and of a document that wraps one.
InnerCells == BaseNodes \o <<RunEdge(1, 40), RunEdge(2, 80)>>
OuterCells == {<<>>, BaseNodes \o <<RunEdge(1, 40)>>}

Files ==
    {[parse |-> p, outer |-> IF p = "ok" THEN o ELSE <<>>, payload |-> pl,
      b64 |-> b, inflate |-> z, utf8 |-> u, reparse |-> r, inner |-> InnerCells] :
        p \in ParseOutcomes, o \in OuterCells, pl \in Payloads,
        b \in BOOLEAN, z \in BOOLEAN, u \in BOOLEAN, r \in BOOLEAN}

InitLoad ==
    /\ variant \in Variants
    /\ file \in Files
    /\ raised = NoError
    /\ walk = NoWalk
    /\ diagram = <<>>
    /\ pc = "open"
    /\ flows = <<>>
    /\ events = <<>>
    /\ vocab = NoVocab
    /\ sentMessages = {} /\ sender = {} /\ receiver = {}
    /\ receivedMessages = {} /\ senderdataMessages = {}
    /\ currentMessage = {} /\ receiverdataMessages = {}
    /\ guardVars = <<>>
    /\ sendCount = <<>> /\ recvCount = <<>>

\* The loader reads the document: the effective tree, or an exception.
Load ==
    /\ pc = "open"
    /\ LET r == LoadTree(variant, file)
       IN  /\ diagram' = r.tree
           /\ raised' = r.raised
           /\ pc' = IF r.raised = NoError THEN "edit" ELSE "failed"
    /\ UNCHANGED <<variant, flows, events, vocab, file>>
    /\ UNCHANGED runVars
    /\ UNCHANGED walk

\* ------------------------------------------------------- the compilation
Init ==
    /\ variant \in Variants
    /\ \E layout \in ScopeLayouts : diagram = BaseNodes \o layout
    /\ pc = "edit"
    /\ flows = <<>>
    /\ events = <<>>
    /\ vocab = NoVocab
    /\ sentMessages = {} /\ sender = {} /\ receiver = {}
    /\ receivedMessages = {} /\ senderdataMessages = {}
    /\ currentMessage = {} /\ receiverdataMessages = {}
    /\ guardVars = <<>>
    /\ sendCount = <<>> /\ recvCount = <<>>
    /\ file = NoFile /\ raised = NoError
    /\ walk = NoWalk

\* One more labelled edge is drawn into the diagram.
AddEdge ==
    /\ pc = "edit"
    /\ EdgeCount(diagram) < MaxEdges
    /\ \E k \in EdgeKinds, y \in YValues : diagram' = Append(diagram, MakeEdge(k, y))
    /\ UNCHANGED <<variant, pc, flows, events, vocab>>
    /\ UNCHANGED runVars
    /\ UNCHANGED walk
    /\ UNCHANGED loadVars

\* The compilation request ends with an exception instead of a model.
Fails(v, d) == v = "index" /\ IndexRaises(d)

\* The nodes extract_sequence_from_xml calls get_abs_geom on: region
\* candidates, label nodes with a bracketed predicate, lifelines.
GeomAsked(n) ==
    \/ n.vertex /\ ScopeKind(n) # ""
    \/ n.vertex /\ n.value.kw \notin {"opt", "alt", "loop", "par"} /\ n.value.cond # NoCond
    \/ n.style \in LifelineStyles /\ HasValue(n)

\* The compilation request does not return.
Hangs(v, d) ==
    v = "t1" /\ \E k \in 1..Len(d) : GeomAsked(d[k]) /\ WalkDiverges(d, d[k])

\* apply_rules_full / apply_rules_1_and_2 / apply_rules_1_to_5
Compile ==
    /\ pc = "edit"
    /\ IF Hangs(variant, diagram)
       THEN /\ pc' = "hung"
            /\ UNCHANGED <<flows, events, vocab, raised>>
       ELSE IF Fails(variant, diagram)
       THEN /\ flows' = <<>> /\ events' = <<>> /\ vocab' = NoVocab
            /\ pc' = "failed"
            /\ raised' = Error("ValueError", "float")
       ELSE /\ flows' = ExtractFlows(variant, diagram)
            /\ events' = GenerateEvents(variant, flows')
            /\ vocab' = Vocabulary(variant, diagram)
            /\ pc' = "done"
            /\ raised' = NoError
    /\ UNCHANGED <<variant, diagram, file>>
    /\ UNCHANGED runVars
    /\ UNCHANGED walk

Next == AddEdge \/ Compile

Spec == Init /\ [][Next]_vars

\* ------------------------------------------- diagrams with guard labels
MaxLabels == 3

\* Two regions each: one around the other, one of them labelled with a guard.
GuardFrames ==
    {<<FrameNode("f1", "umlFrame", "opt", Cond("valid", "=", 1), "1", InnerBox),
       FrameNode("f2", "umlFrame", "loop", NoCond, "1", OuterBox)>>,
     <<FrameNode("f1", "umlFrame", "opt", NoCond, "1", OuterBox),
       FrameNode("f2", "rounded", "break", Cond("err", "=", 1), "f1",
                 Geo(20, 40, 520, 60))>>,
     <<FrameNode("f1", "umlFrame", "alt", NoCond, "1", OuterBox),
       FrameNode("f2", "umlFrame", "", Cond("mode", "==", 2), "1", InnerBox)>>}

\* Label nodes: a child of either region, floating inside both, above the outer
\* one, inside the outer one only, and away from both.
GuardLabels ==
    {TextNode("t", Cond("valid", "=", 2), "f1", Geo(10, 10, 40, 20)),
     TextNode("t", Cond("amount", ">", 0), "f2", Geo(10, 10, 40, 20)),
     TextNode("t", RangeCond("valid", 0, 3), "1", Geo(50, 70, 40, 20)),
     TextNode("t", Cond("valid", ">", 0), "1", Geo(30, 10, 40, 20)),
     TextNode("t", Cond("amount", "=", 5), "1", Geo(30, 130, 40, 20)),
     TextNode("t", RangeCond("amount", 1, 2), "1", Geo(700, 300, 40, 20))}

LabelCount(d) == Cardinality({k \in 1..Len(d) : d[k].style = "text"})

InitGuards ==
    /\ variant = "t1"
    /\ \E frames \in GuardFrames :
          diagram = BaseNodes \o frames \o <<RunEdge(1, 40), RunEdge(2, 80)>>
    /\ pc = "edit"
    /\ flows = <<>>
    /\ events = <<>>
    /\ vocab = NoVocab
    /\ sentMessages = {} /\ sender = {} /\ receiver = {}
    /\ receivedMessages = {} /\ senderdataMessages = {}
    /\ currentMessage = {} /\ receiverdataMessages = {}
    /\ guardVars = <<>>
    /\ sendCount = <<>> /\ recvCount = <<>>
    /\ file = NoFile /\ raised = NoError
    /\ walk = NoWalk

\* One more label node with a bracketed predicate is put into the diagram.
AddLabel ==
    /\ pc = "edit"
    /\ LabelCount(diagram) < MaxLabels
    /\ \E l \in GuardLabels : diagram' = Append(diagram, l)
    /\ UNCHANGED <<variant, pc, flows, events, vocab>>
    /\ UNCHANGED runVars
    /\ UNCHANGED walk
    /\ UNCHANGED loadVars

NextGuards == AddLabel \/ Compile

SpecGuards == InitGuards /\ [][NextGuards]_vars

\* ------------------------------------- diagrams with loose edge ends
\* label, source id, target id, source point, target point, numeric y
EndKinds ==
    {<<Label("login", <<"user">>, TRUE), "lA", "lB", AtX(100), AtX(300), TRUE>>,
     <<Label("ack", <<>>, TRUE), "lB", "lA", AtX(300), AtX(100), TRUE>>,
     <<Label("relay", <<>>, TRUE), "lA", "lC", AtX(300), AtX(500), TRUE>>,
     <<Label("near", <<>>, TRUE), "", "", AtX(650), AtX(651), TRUE>>,
     <<Label("far", <<>>, TRUE), "", "", AtX(651), AtX(500), TRUE>>,
     <<Label("bad", <<>>, TRUE), "lA", "lB", AtX(100), AtX(300), FALSE>>,
     <<Label("pay", <<"amount", "card">>, TRUE), "lA", "lB", AtX(100), AtX(300), TRUE>>}

\* The y attribute of the edge geometry and of its source point is no number.
NonNumericY(n) == [n EXCEPT !.geo.num = FALSE, !.sp.num = FALSE]

\* Edges are drawn from the top down, one step below the last.
StepY == 40
MakeEndEdge(k, y) ==
    IF k[6] THEN EdgeNode("e", k[1], k[2], k[3], k[4], k[5], y)
    ELSE NonNumericY(EdgeNode("e", k[1], k[2], k[3], k[4], k[5], y))

InitEnds ==
    /\ variant \in Variants
    /\ diagram \in {BaseNodes, <<>>}
    /\ pc = "edit"
    /\ flows = <<>>
    /\ events = <<>>
    /\ vocab = NoVocab
    /\ sentMessages = {} /\ sender = {} /\ receiver = {}
    /\ receivedMessages = {} /\ senderdataMessages = {}
    /\ currentMessage = {} /\ receiverdataMessages = {}
    /\ guardVars = <<>>
    /\ sendCount = <<>> /\ recvCount = <<>>
    /\ file = NoFile /\ raised = NoError
    /\ walk = NoWalk

DrawEdge ==
    /\ pc = "edit"
    /\ EdgeCount(diagram) < MaxEdges
    /\ \E k \in EndKinds :
          diagram' = Append(diagram, MakeEndEdge(k, StepY * (EdgeCount(diagram) + 1)))
    /\ UNCHANGED <<variant, pc, flows, events, vocab>>
    /\ UNCHANGED runVars
    /\ UNCHANGED walk
    /\ UNCHANGED loadVars

NextEnds == DrawEdge \/ Compile

SpecEnds == InitEnds /\ [][NextEnds]_vars

NextLoad == Load \/ Compile

SpecLoad == InitLoad /\ [][NextLoad]_vars

\* ------------------------------------------- diagrams with parent chains
MaxSteps == 5

WalkIds == {"1", "f1", "f2", "f3", "zz"}

\* Three regions; each names the root, a region or no node as its parent,
\* and the second may lack its mxGeometry.
WalkDocs ==
    {<<FrameNode("f1", "umlFrame", "opt", NoCond, p1, Geo(10, 20, 100, 50)),
       FrameNode("f2", "umlFrame", "opt", NoCond, p2, g2),
       FrameNode("f3", "umlFrame", "opt", NoCond, p3, Geo(50, 60, 300, 70))>> :
        p1 \in WalkIds, p2 \in WalkIds, p3 \in WalkIds,
        g2 \in {Geo(30, 40, 200, 60), NoGeo}}

InitWalk ==
    /\ variant = "t1"
    /\ diagram \in WalkDocs
    /\ walk \in {WalkStart(diagram, k) : k \in 1..Len(diagram)}
    /\ pc = "edit"
    /\ flows = <<>>
    /\ events = <<>>
    /\ vocab = NoVocab
    /\ sentMessages = {} /\ sender = {} /\ receiver = {}
    /\ receivedMessages = {} /\ senderdataMessages = {}
    /\ currentMessage = {} /\ receiverdataMessages = {}
    /\ guardVars = <<>>
    /\ sendCount = <<>> /\ recvCount = <<>>
    /\ file = NoFile /\ raised = NoError

\* One iteration of the while loop of get_abs_geom.
WalkStep ==
    /\ walk.state = "walking"
    /\ walk.cur \notin {"", "1", "0"}
    /\ walk.steps < MaxSteps
    /\ LET j == NodeIndex(diagram, walk.cur)
       IN  walk' =
             IF j = 0 THEN [walk EXCEPT !.state = "returned"]
             ELSE IF diagram[j].geo.has /\ ~diagram[j].geo.num
             THEN [walk EXCEPT !.state = "returned", !.box = NoGeo]
             ELSE [walk EXCEPT
                     !.box.x = @ + (IF diagram[j].geo.has THEN diagram[j].geo.x ELSE 0),
                     !.box.y = @ + (IF diagram[j].geo.has THEN diagram[j].geo.y ELSE 0),
                     !.cur = diagram[j].parent,
                     !.steps = @ + 1]
    /\ UNCHANGED <<variant, diagram, pc, flows, events, vocab, file, raised>>
    /\ UNCHANGED runVars

\* The loop condition fails at a root sentinel: return the box.
WalkReturn ==
    /\ walk.state = "walking"
    /\ walk.cur \in {"", "1", "0"}
    /\ walk' = [walk EXCEPT !.state = "returned"]
    /\ UNCHANGED <<variant, diagram, pc, flows, events, vocab, file, raised>>
    /\ UNCHANGED runVars

NextWalk == WalkStep \/ WalkReturn \/ Compile

SpecWalk == InitWalk /\ [][NextWalk]_vars

\* ------------------------------------- running the generated event system
\* The diagrams whose machines are run: n flows, A to B and back in turn.
RunEdges == UNION {[1..n -> YValues] : n \in 1..MaxFlows}

InitRun ==
    /\ variant \in Variants
    /\ \E layout \in ScopeLayouts, ys \in RunEdges :
          diagram = BaseNodes \o layout \o [i \in DOMAIN ys |-> RunEdge(i, ys[i])]
    /\ pc = "run"
    /\ flows = ExtractFlows(variant, diagram)
    /\ events = GenerateEvents(variant, flows)
    /\ vocab = Vocabulary(variant, diagram)
    /\ sentMessages = {} /\ sender = {} /\ receiver = {}
    /\ receivedMessages = {} /\ senderdataMessages = {}
    /\ currentMessage = {} /\ receiverdataMessages = {}
    /\ guardVars \in InitialGuardVars(VarTable(variant, diagram))
    /\ sendCount = [i \in 1..Len(flows) |-> 0]
    /\ recvCount = [i \in 1..Len(flows) |-> 0]
    /\ file = NoFile /\ raised = NoError
    /\ walk = NoWalk

FireSend ==
    \E k \in 1..Len(events) :
        /\ pc = "run"
        /\ events[k].kind = "send"
        /\ Enabled(events[k])
        /\ sendCount[events[k].pos] < MaxFire
        /\ Apply(events[k])
        /\ sendCount' = [sendCount EXCEPT ![events[k].pos] = @ + 1]
        /\ UNCHANGED <<variant, diagram, pc, flows, events, vocab, recvCount, file, raised, walk>>

FireReceive ==
    \E k \in 1..Len(events) :
        /\ pc = "run"
        /\ events[k].kind = "receive"
        /\ Enabled(events[k])
        /\ recvCount[events[k].pos] < MaxFire
        /\ Apply(events[k])
        /\ recvCount' = [recvCount EXCEPT ![events[k].pos] = @ + 1]
        /\ UNCHANGED <<variant, diagram, pc, flows, events, vocab, sendCount, file, raised, walk>>

NextRun == FireSend \/ FireReceive

SpecRun == InitRun /\ [][NextRun]_vars

\* The runs in which an enabled event is always eventually taken.
SpecRunFair == InitRun /\ [][NextRun]_vars /\ WF_vars(NextRun)

\* ====================================================== claims C1 .. C10
SendOf(i) == events[2 * i - 1]
RecvOf(i) == events[2 * i]
EnabledEvents == {k \in 1..Len(events) : Enabled(events[k])}

\* C1: for every flow i > 1 the guards of its send event hold the condition
\* that the instance of flow i-1 is in receivedMessages, with or without a
\* scope guard on flow i.
C1_PrevReceivedGuard ==
    pc = "done" =>
        \A i \in 2..Len(flows) :
            \E k \in 1..Len(SendOf(i).grd) :
                /\ SendOf(i).grd[k].t = "prevReceived"
                /\ SendOf(i).grd[k].m = InstanceOf(variant, flows, i - 1)

\* C2: in every run the send event of flow i+1 has not fired unless the
\* receive event of flow i has: the events fire in the order of the flows.
C2_TotalOrder ==
    pc = "run" =>
        \A i \in 1..(Len(flows) - 1) : sendCount[i + 1] >= 1 => recvCount[i] >= 1

\* C3: currentMessage holds at most one message, and while message m is in
\* flight (sent, not yet received) the receive event of m is enabled and no
\* other event is.
C3_StrictAlternation ==
    pc = "run" =>
        /\ Cardinality(currentMessage) <= 1
        /\ \A i \in 1..Len(flows) :
              sendCount[i] > recvCount[i] =>
                  /\ currentMessage = {InstanceOf(variant, flows, i)}
                  /\ EnabledEvents = {2 * i}

C3_Witness ==
    /\ pc = "run"
    /\ Len(flows) >= 2
    /\ \E i \in 1..Len(flows) : sendCount[i] = 1 /\ recvCount[i] = 0

\* C4: receivedMessages is a subset of sentMessages in every state (inv5),
\* also after a send has cleared receivedMessages, and no receive event has
\* fired more often than the send event of its message.
C4_ReceivedAfterSent ==
    pc = "run" =>
        /\ receivedMessages \subseteq sentMessages
        /\ \A i \in 1..Len(flows) : recvCount[i] <= sendCount[i]

C4_Witness ==
    /\ pc = "run"
    /\ \E i, j \in 1..Len(flows) :
          /\ i # j
          /\ recvCount[i] = 1 /\ recvCount[j] = 1
          /\ receivedMessages = {InstanceOf(variant, flows, j)}

\* C5: every send event and every receive event fires at most once, and
\* sentMessages holds every message ever sent, although each later send
\* clears receivedMessages.
C5_NeverResent ==
    pc = "run" =>
        /\ \A i \in 1..Len(flows) : sendCount[i] <= 1 /\ recvCount[i] <= 1
        /\ sentMessages =
              {InstanceOf(variant, flows, i) : i \in {j \in 1..Len(flows) : sendCount[j] >= 1}}

C5_Witness ==
    /\ pc = "run"
    /\ \E i, j \in 1..Len(flows) :
          /\ i # j
          /\ sendCount[i] = 1 /\ recvCount[i] = 1 /\ sendCount[j] = 1
          /\ InstanceOf(variant, flows, i) \in sentMessages
          /\ InstanceOf(variant, flows, i) \notin receivedMessages

\* The labelled edges of the diagram, and which ends the running version of
\* the compiler can attribute to a participant.
LabelledEdges(d) == {k \in 1..Len(d) : d[k].edge /\ d[k].value.call # ""}
ScopeNodes(d) == {k \in 1..Len(d) : ScopeKind(d[k]) # ""}

SenderResolves(v, d, n) ==
    CASE v = "t1" -> T1SourceName(T1LifelinesFrom(d, 1), n) \notin {NoName, Unknown}
      [] v = "index" -> IndexLifelineName(d, n.source) # Unknown
      [] OTHER -> n.source # "" /\ TestLifelineName(d, n.source) # NoName

ReceiverResolves(v, d, n) ==
    CASE v = "t1" ->
            n.geo.has /\ n.tp.has /\ FindClosest(T1LifelinesFrom(d, 1), n.tp.x) # Unknown
      [] v = "index" -> IndexLifelineName(d, n.target) # Unknown
      [] OTHER -> n.target # "" /\ TestLifelineName(d, n.target) # NoName

Resolvable(v, d, k) == SenderResolves(v, d, d[k]) /\ ReceiverResolves(v, d, d[k])

Without(d, k) == SubSeq(d, 1, k - 1) \o SubSeq(d, k + 1, Len(d))

\* C6: a diagram of N resolvable flows and no scopes compiles to exactly 2N
\* events: flow after flow, the send event and then the receive event of the
\* same message instance.
C6_TwoEventsPerFlow ==
    (/\ pc = "done"
     /\ ScopeNodes(diagram) = {}
     /\ \A k \in LabelledEdges(diagram) : Resolvable(variant, diagram, k))
    =>
        /\ Len(events) = 2 * Cardinality(LabelledEdges(diagram))
        /\ \A i \in 1..Cardinality(LabelledEdges(diagram)) :
              /\ SendOf(i).kind = "send"
              /\ RecvOf(i).kind = "receive"
              /\ SendOf(i).inst = InstanceOf(variant, flows, i)
              /\ RecvOf(i).inst = SendOf(i).inst

C6_Witness ==
    /\ pc = "done"
    /\ ScopeNodes(diagram) = {}
    /\ \A k \in LabelledEdges(diagram) : Resolvable(variant, diagram, k)
    /\ Cardinality(LabelledEdges(diagram)) = 3
    /\ Len(events) = 6

\* C7: a flow whose sender cannot be resolved contributes nothing: it is no
\* flow of the sequence (no ordinal, no events), and the message and data
\* vocabularies are those of the diagram without it.
C7_UnresolvedSenderDropped ==
    pc = "done" =>
        \A k \in LabelledEdges(diagram) :
            ~SenderResolves(variant, diagram, diagram[k]) =>
                /\ \A i \in 1..Len(flows) : flows[i].eid # k
                /\ vocab.messages = Vocabulary(variant, Without(diagram, k)).messages
                /\ vocab.msgConstants =
                      Vocabulary(variant, Without(diagram, k)).msgConstants
                /\ vocab.data = Vocabulary(variant, Without(diagram, k)).data

\* C8: a flow whose sender resolves and whose receiver does not is retained
\* with receiver "Unknown", and its send/receive pair is generated.
C8_UnknownReceiverRetained ==
    pc = "done" =>
        \A k \in LabelledEdges(diagram) :
            (/\ SenderResolves(variant, diagram, diagram[k])
             /\ ~ReceiverResolves(variant, diagram, diagram[k]))
            => \E i \in 1..Len(flows) :
                  /\ flows[i].eid = k
                  /\ flows[i].to = Unknown
                  /\ 2 * i <= Len(events)
                  /\ SendOf(i).kind = "send" /\ RecvOf(i).kind = "receive"
                  /\ \E a \in Of(SendOf(i), "addReceiver") : a.o = Unknown

\* C9: the retained flows carry the ordinals 1..N by non-decreasing vertical
\* position, flows at the same position in document order, and the instance
\* identifier of a flow is formed from that ordinal.
C9_OrdinalsByPosition ==
    pc = "done" =>
        /\ \A i \in 1..Len(flows) :
              /\ Ordinal(variant, flows, i) = i
              /\ SendOf(i).inst = MsgId(flows[i].msg, i)
        /\ \A i, j \in 1..Len(flows) :
              i < j =>
                  \/ flows[i].y < flows[j].y
                  \/ (flows[i].y = flows[j].y /\ flows[i].eid < flows[j].eid)

\* C10: a flow inside several scopes is attributed to a scope of the least
\* height among them; suffix and send guard are that scope's, and no guard of
\* an enclosing scope is used, also when the innermost scope has none.
ScopesAround(y) ==
    {k \in 1..Len(ExtractScopes(diagram)) :
        /\ ExtractScopes(diagram)[k].y_start <= y
        /\ y <= ExtractScopes(diagram)[k].y_end}

CondGuards(e) == {e.grd[k].c : k \in {j \in 1..Len(e.grd) : e.grd[j].t = "cond"}}

C10_InnermostScope ==
    (pc = "done" /\ variant = "t1") =>
        \A i \in 1..Len(flows) :
            ScopesAround(flows[i].y) # {} =>
                \E k \in ScopesAround(flows[i].y) :
                    LET sc == ExtractScopes(diagram)[k]
                    IN  /\ \A j \in ScopesAround(flows[i].y) :
                              sc.height <= ExtractScopes(diagram)[j].height
                        /\ flows[i].opt_suffix = sc.type
                        /\ SendOf(i).suffix = sc.type
                        /\ RecvOf(i).suffix = sc.type
                        /\ flows[i].guard_cond = sc.condition
                        /\ CondGuards(SendOf(i)) =
                              IF sc.condition = NoCond THEN {} ELSE {sc.condition}

C10_Witness ==
    /\ pc = "done" /\ variant = "t1"
    /\ \E i \in 1..Len(flows) :
          /\ Cardinality(ScopesAround(flows[i].y)) = 2
          /\ flows[i].guard_cond = NoCond
          /\ \E k \in ScopesAround(flows[i].y) :
                ExtractScopes(diagram)[k].condition # NoCond

\* ===================================================== claims C11 .. C20
\* C11: once a scope has a guard (from its own label or from an earlier label
\* node) no later step of the guard resolution changes it, whatever labels
\* follow: a child label or a floating label around the scope leaves it alone.
C11_GuardWriteOnce ==
    (pc = "done" /\ variant = "t1") =>
        /\ GuardSteps(diagram, Len(diagram)) = ExtractScopes(diagram)
        /\ \A n \in 1..Len(diagram) :
              \A k \in 1..Len(ScopesFrom(diagram, 1, 1)) :
                  GuardSteps(diagram, n - 1)[k].condition # NoCond =>
                      GuardSteps(diagram, n)[k].condition =
                          GuardSteps(diagram, n - 1)[k].condition

C11_Witness ==
    /\ pc = "done" /\ variant = "t1"
    /\ \E k \in 1..Len(ScopesFrom(diagram, 1, 1)) :
          LET sc == ScopesFrom(diagram, 1, 1)[k]
          IN  /\ sc.condition # NoCond
              /\ ExtractScopes(diagram)[k].condition = sc.condition
              /\ \E n, m \in 1..Len(diagram) :
                    /\ IsGuardLabel(diagram, diagram[n])
                    /\ diagram[n].parent = sc.id
                    /\ NormCond(diagram[n].value.cond) # sc.condition
                    /\ IsGuardLabel(diagram, diagram[m])
                    /\ diagram[m].parent = "1"
                    /\ Contains(sc, AbsGeom(diagram, diagram[m]).x,
                                AbsGeom(diagram, diagram[m]).y)
                    /\ NormCond(diagram[m].value.cond) # sc.condition

\* C12: the bracketed predicate in the label of a node that is itself a
\* registered scope (break regions and style-only regions included) is never
\* assigned to a scope: visiting such a node changes no scope's guard.
C12_RegionLabelsNotGuards ==
    (pc = "done" /\ variant = "t1") =>
        \A n \in 1..Len(diagram) :
            IsScopeNode(diagram, diagram[n]) =>
                GuardSteps(diagram, n) = GuardSteps(diagram, n - 1)

\* The lifeline node an endpoint identifier names, 0 when it names none.
NamedLifeline(d, i) ==
    LET hits == {k \in 1..Len(d) : d[k].style \in LifelineStyles /\ d[k].id = i}
    IN  IF i = "" \/ hits = {} THEN 0 ELSE CHOOSE k \in hits : \A j \in hits : j <= k

NumericEdge(n) == n.geo.num /\ n.sp.num /\ n.tp.num

\* C13: nearest-participant resolution names a participant only when its
\* centre is within the threshold of the endpoint x, answers "Unknown" when
\* every participant is farther or there is none, and a flow whose sender is
\* "Unknown" is no flow of the sequence.
C13_NearestWithinThreshold ==
    (pc = "done" /\ variant = "t1") =>
        LET ll == T1LifelinesFrom(diagram, 1)
            near(x) == {j \in 1..Len(ll) : Abs(ll[j].center_x - x) <= MatchThreshold}
            ok(x) == /\ FindClosest(ll, x) # Unknown =>
                            \E j \in near(x) : ll[j].name = FindClosest(ll, x)
                     /\ near(x) = {} => FindClosest(ll, x) = Unknown
        IN  \A k \in LabelledEdges(diagram) :
                LET n == diagram[k]
                IN  /\ n.sp.has => ok(n.sp.x)
                    /\ n.tp.has => ok(n.tp.x)
                    /\ (n.sp.has /\ near(n.sp.x) = {}) =>
                            \A i \in 1..Len(flows) : flows[i].eid # k
                    /\ \A i \in 1..Len(flows) :
                            flows[i].eid = k =>
                                /\ flows[i].from = FindClosest(ll, n.sp.x)
                                /\ n.tp.has => flows[i].to = FindClosest(ll, n.tp.x)

C13_Witness ==
    /\ pc = "done" /\ variant = "t1"
    /\ \E i \in 1..Len(flows) :
          /\ flows[i].msg = "near" /\ flows[i].from = "C" /\ flows[i].to = Unknown
    /\ \E k \in LabelledEdges(diagram) :
          /\ diagram[k].value.call = "far"
          /\ \A i \in 1..Len(flows) : flows[i].eid # k

\* C14: an edge whose source (target) identifier names a participant is a
\* flow attributed to that participant, wherever its end points lie; the
\* nearest participant by x is used only for an end without identifier match.
C14_IdentifierFirst ==
    (pc = "done" /\ variant \in {"t1", "index"}
     /\ \A k \in LabelledEdges(diagram) : NumericEdge(diagram[k])) =>
        \A k \in LabelledEdges(diagram) :
            NamedLifeline(diagram, diagram[k].source) # 0 =>
                \E i \in 1..Len(flows) :
                    /\ flows[i].eid = k
                    /\ flows[i].from =
                          diagram[NamedLifeline(diagram, diagram[k].source)].value.call
                    /\ NamedLifeline(diagram, diagram[k].target) # 0 =>
                          flows[i].to =
                            diagram[NamedLifeline(diagram, diagram[k].target)].value.call

\* The guard variable table when the scan has visited the first n nodes.
VarsAfter(n) == ExtractVariables(SubSeq(diagram, 1, n))

\* C15: the first classification of a guard variable name in document order
\* fixes its mode and initial value: no later bracketed mention of the name,
\* of any form, changes the entry.
C15_FirstClassificationWins ==
    (pc = "done" /\ variant = "t1") =>
        \A n \in 1..Len(diagram) :
            \A x \in DOMAIN VarsAfter(n - 1) :
                x \in DOMAIN VarsAfter(n) /\ VarsAfter(n)[x] = VarsAfter(n - 1)[x]

\* C16: the table holds one entry with one mode per name, and a comparison
\* that mentions a name already in the table leaves the table as it is.
C16_ComparisonNeverOverrides ==
    (pc = "done" /\ variant = "t1") =>
        /\ \A x \in DOMAIN VarsAfter(Len(diagram)) :
              VarsAfter(Len(diagram))[x].op \in {":=", "::"}
        /\ \A n \in 1..Len(diagram) :
              (/\ diagram[n].value.cond.op \in CmpOps
               /\ diagram[n].value.cond.var \in DOMAIN VarsAfter(n - 1))
              => VarsAfter(n) = VarsAfter(n - 1)

C16_Witness ==
    /\ pc = "done" /\ variant = "t1"
    /\ \E n, m \in 1..Len(diagram) :
          /\ n < m
          /\ diagram[m].value.cond.op \in CmpOps
          /\ diagram[m].value.cond.var \in DOMAIN VarsAfter(m - 1)
          /\ diagram[n].value.cond.op \in RangeOps
          /\ diagram[n].value.cond.var = diagram[m].value.cond.var
          /\ VarsAfter(Len(diagram))[diagram[m].value.cond.var].op = "::"

\* The diagram of the scenario: A, B, C, an optional region over 60..120 with
\* the guard valid=1, login(user) from A to B at 40 and ack from B to A at 80.
ScenarioDiagram ==
    BaseNodes
    \o <<FrameNode("f1", "umlFrame", "opt", Cond("valid", "=", 1), "1", InnerBox)>>
    \o <<MakeEdge(<<Label("login", <<"user">>, TRUE), "lA", "lB", AtX(100), AtX(300)>>, 40),
         MakeEdge(<<Label("ack", <<>>, TRUE), "lB", "lA", AtX(300), AtX(100)>>, 80)>>

\* C17: the scenario compiles to the table {valid: deterministic, 1}, two
\* flows, flow 2 with the optional-scope suffix and the guard valid=1, four
\* events, and a send event of flow 2 guarded both by "login_1 is in
\* receivedMessages" and by valid=1.
C17_Scenario ==
    (pc = "done" /\ variant \in {"t1", "index"} /\ diagram = ScenarioDiagram) =>
        /\ VarTable(variant, diagram) = ("valid" :> [val |-> 1, hi |-> 1, op |-> ":="])
        /\ Len(flows) = 2
        /\ flows[2].msg = "ack"
        /\ flows[2].opt_suffix = <<"opt", 1>>
        /\ flows[2].guard_cond = Cond("valid", "=", 1)
        /\ Len(events) = 4
        /\ Grd("prevReceived", MsgId("login", 1), "", NoCond) \in Range(SendOf(2).grd)
        /\ Grd("cond", NoMsg, "", Cond("valid", "=", 1)) \in Range(SendOf(2).grd)

\* C18: when the document wraps a payload and any stage of the decode chain
\* fails (base64, deflate, UTF-8, re-parse of the decoded text), the loader
\* returns the outer tree as parsed and raises nothing.
C18_DecodeFailureFallsBack ==
    (/\ pc # "open" /\ variant = "index"
     /\ file.parse = "ok" /\ file.payload = "text" /\ DecodeChain(file) # "ok")
    => /\ raised = NoError
       /\ pc # "failed"
       /\ diagram = file.outer

C18_Witness ==
    /\ pc = "edit" /\ variant = "index"
    /\ file.parse = "ok" /\ file.payload = "text"
    /\ DecodeChain(file) = "ParseError"
    /\ raised = NoError
    /\ diagram = file.outer /\ diagram # <<>>

\* C19: the loader raises exactly when the document does not parse as
\* markup, and the error it raises carries the cause of that failure.
C19_RaisesOnlyOnUnparsable ==
    pc # "open" =>
        /\ (raised # NoError) <=> (file.parse # "ok")
        /\ raised # NoError =>
              /\ pc = "failed"
              /\ raised.kind = "RuntimeError"
              /\ raised.cause = file.parse

C19_Witness ==
    /\ pc = "failed"
    /\ file.parse = "ParseError"
    /\ file.payload = "text"
    /\ raised = Error("RuntimeError", "ParseError")

\* C20: a coordinate that is no number on one edge degrades that edge only:
\* the request does not fail, and every other resolvable flow still has its
\* ordinal and its send/receive pair.
C20_FaultIsolation ==
    (pc \in {"done", "failed"} /\ variant \in {"t1", "index"}) =>
        /\ pc = "done" /\ raised = NoError
        /\ \A k \in LabelledEdges(diagram) :
              (NumericEdge(diagram[k]) /\ Resolvable(variant, diagram, k)) =>
                  \E i \in 1..Len(flows) :
                      /\ flows[i].eid = k
                      /\ 2 * i <= Len(events)
                      /\ SendOf(i).kind = "send" /\ SendOf(i).inst = MsgId(flows[i].msg, i)
                      /\ RecvOf(i).kind = "receive" /\ RecvOf(i).inst = SendOf(i).inst

\* ===================================================== claims C21 .. C30
\* C21: the geometry walk ends for every node of every document, also when
\* the parent references form a cycle: it takes no more parent steps than the
\* document has nodes, and the compilation returns.
C21_WalkBounded ==
    /\ walk.steps <= Len(diagram)
    /\ pc # "hung"

\* C22: every scope carries the next ordinal of its own kind, counted from 1
\* in discovery order, and its suffix is the kind with that ordinal: the first
\* optional and the first alternative scope of a diagram both carry 1.
C22_PerKindOrdinals ==
    (pc = "done" /\ variant = "t1") =>
        LET sc == ExtractScopes(diagram)
        IN  /\ \A k \in 1..Len(sc) :
                  sc[k].type[2] =
                      Cardinality({j \in 1..k : sc[j].type[1] = sc[k].type[1]})
            /\ \A i \in 1..Len(flows) :
                  flows[i].opt_suffix # <<>> =>
                      \E k \in 1..Len(sc) : flows[i].opt_suffix = sc[k].type

\* The names the flows use as sender or receiver.
FlowNames == {flows[i].from : i \in 1..Len(flows)} \cup {flows[i].to : i \in 1..Len(flows)}

\* C23: the declared participants (Objects) are exactly the resolved names
\* that are sender or receiver of a retained flow, and every name a send
\* event pairs with a message is declared, so inv3 and inv4 are kept.
C23_ParticipantVocabulary ==
    (pc = "done" /\ variant \in {"t1", "index"}) =>
        /\ vocab.objects \ {Unknown} = FlowNames \ {Unknown}
        /\ \A k \in 1..Len(events) :
              \A a \in Of(events[k], "addSender") \cup Of(events[k], "addReceiver") :
                  a.o \in vocab.objects

\* C24: the declared messages (Messages) are exactly the instance identifiers
\* <callName>_<ordinal> of the retained flows, and every identifier a send
\* event puts into sentMessages or currentMessage is declared (inv1, inv2).
C24_MessageVocabulary ==
    (pc = "done" /\ variant \in {"t1", "index"}) =>
        /\ vocab.messages = Instances(variant, flows)
        /\ \A k \in 1..Len(events) :
              \A a \in Of(events[k], "addSent") \cup Of(events[k], "setCurrent") :
                  a.m \in vocab.messages

\* The first argument of the label of an edge, as the one data item of a flow.
FirstArgument(n) ==
    IF n.value.args # <<>> THEN {<<n.value.args[1]>>} ELSE {}

\* C25: a flow carries at most one data parameter, the first argument of its
\* label; its send and receive events record exactly that parameter, and the
\* parameter is declared in the data vocabulary.
C25_FirstArgumentOnly ==
    (pc = "done" /\ variant \in {"t1", "index"}) =>
        \A i \in 1..Len(flows) :
            LET first == FirstArgument(diagram[flows[i].eid])
            IN  /\ Range(flows[i].data) = first
                /\ {a.d : a \in Of(SendOf(i), "addSenderData")} = first
                /\ {a.d : a \in Of(RecvOf(i), "addReceiverData")} = first
                /\ first \subseteq vocab.data

\* C26: a guard label whose parent is a scope without a guard sets that
\* scope's guard; in every other case (the parent is no scope, or the parent
\* scope has a guard already) the first scope, in discovery order, that
\* contains the label's absolute position and lacks a guard gets it; a label
\* sets the guard of at most one scope.
C26_ParentThenSpatial ==
    (pc = "done" /\ variant = "t1") =>
        \A n \in 1..Len(diagram) :
            IsGuardLabel(diagram, diagram[n]) =>
                LET before == GuardSteps(diagram, n - 1)
                    after == GuardSteps(diagram, n)
                    g == AbsGeom(diagram, diagram[n])
                    c == NormCond(diagram[n].value.cond)
                    free == {k \in 1..Len(before) : before[k].condition = NoCond}
                    parents == {k \in free : before[k].id = diagram[n].parent}
                    around == {k \in free : Contains(before[k], g.x, g.y)}
                    target == IF parents # {} THEN parents ELSE around
                    changed == {k \in 1..Len(before) : after[k] # before[k]}
                IN  /\ Cardinality(changed) <= 1
                    /\ target = {} => changed = {}
                    /\ target # {} =>
                          LET k == CHOOSE j \in target : \A m \in target : j <= m
                          IN  after = [before EXCEPT ![k].condition = c]

\* The nodes above node k: its parent, the parent's parent and so on, as the
\* closure of the parent relation, the root sentinels left out.
ParentOf(d, k) ==
    IF d[k].parent \in {"", "1", "0"} THEN {} ELSE {NodeIndex(d, d[k].parent)} \ {0}

RECURSIVE Closure(_, _, _)
Closure(d, S, rounds) ==
    IF rounds = 0 THEN S
    ELSE Closure(d, S \cup UNION {ParentOf(d, j) : j \in S}, rounds - 1)

Ancestors(d, k) == Closure(d, ParentOf(d, k), Len(d))

RECURSIVE SumX(_, _)
SumX(d, S) ==
    IF S = {} THEN 0
    ELSE LET j == CHOOSE m \in S : TRUE
         IN  (IF d[j].geo.has THEN d[j].geo.x ELSE 0) + SumX(d, S \ {j})

RECURSIVE SumY(_, _)
SumY(d, S) ==
    IF S = {} THEN 0
    ELSE LET j == CHOOSE m \in S : TRUE
         IN  (IF d[j].geo.has THEN d[j].geo.y ELSE 0) + SumY(d, S \ {j})

\* C27: the absolute box of a node with geometry has x and y equal to its own
\* x / y plus the x / y of every ancestor on its parent chain below the root
\* sentinel; width and height are the node's own and are never accumulated.
C27_AbsoluteBox ==
    (walk.state = "returned" /\ diagram[walk.node].geo.has) =>
        LET n == diagram[walk.node]
            up == Ancestors(diagram, walk.node)
            box == Geo(n.geo.x + SumX(diagram, up), n.geo.y + SumY(diagram, up),
                       n.geo.w, n.geo.h)
        IN  /\ walk.box = box
            /\ AbsGeom(diagram, n) = box
            /\ walk.steps = Cardinality(up)

C27_Witness ==
    /\ walk.state = "returned"
    /\ walk.steps >= 2
    /\ \A j \in Ancestors(diagram, walk.node) : diagram[j].geo.has
    /\ walk.box.x > diagram[walk.node].geo.x
    /\ walk.box.w = diagram[walk.node].geo.w

\* C28: for a node without geometry the resolver returns the zero box, and a
\* region node without geometry is still registered as a scope.
C28_MissingGeometryZeroBox ==
    (walk.state = "returned" /\ ~diagram[walk.node].geo.has) =>
        /\ walk.box = Geo(0, 0, 0, 0)
        /\ AbsGeom(diagram, diagram[walk.node]) = Geo(0, 0, 0, 0)
        /\ (~Hangs(variant, diagram) /\ ScopeKind(diagram[walk.node]) # "") =>
              \E k \in 1..Len(ExtractScopes(diagram)) :
                  ExtractScopes(diagram)[k].id = diagram[walk.node].id

\* The flows whose scope guard is false under the current guard variables.
Blocked == {i \in 1..Len(flows) :
              flows[i].guard_cond # NoCond /\ ~EvalCond(flows[i].guard_cond)}

\* C29: no send or receive event assigns a guard variable, so every guard
\* variable keeps the value chosen at INITIALISATION; a send event whose scope
\* guard is false there is not enabled in any state and never fires.
C29_GuardVariablesFrozen ==
    /\ [][guardVars' = guardVars]_vars
    /\ [](pc = "run" =>
            /\ guardVars \in InitialGuardVars(VarTable(variant, diagram))
            /\ \A i \in Blocked :
                  /\ ~Enabled(SendOf(i))
                  /\ sendCount[i] = 0 /\ recvCount[i] = 0
                  /\ InstanceOf(variant, flows, i) \notin sentMessages)

C29_Witness ==
    /\ pc = "run" /\ variant = "t1"
    /\ Blocked # {}
    /\ \E j \in 1..Len(flows) :
          /\ j \notin Blocked /\ flows[j].guard_cond # NoCond
          /\ recvCount[j] >= 1
    /\ \E i \in Blocked : i < Len(flows) /\ sendCount[i + 1] >= 1

\* No flow of the machine carries a scope guard.
Unguarded == \A i \in 1..Len(flows) : flows[i].guard_cond = NoCond

RECURSIVE Total(_, _)
Total(c, n) == IF n = 0 THEN 0 ELSE c[n] + Total(c, n - 1)

\* The events fired so far.
Fired == Total(sendCount, Len(flows)) + Total(recvCount, Len(flows))

\* The state at the end of the scenario.
Final ==
    /\ \A i \in 1..Len(flows) :
          /\ InstanceOf(variant, flows, i) \in sentMessages
          /\ sendCount[i] = 1 /\ recvCount[i] = 1
    /\ currentMessage = {}
    /\ EnabledEvents = {}
    /\ Fired = 2 * Len(flows)

\* C30: for N flows without scope guards no run fires more than 2N events,
\* and every run in which an enabled event is always eventually taken reaches,
\* with its 2N-th firing, the state where every instance is sent, every
\* receive event has fired, currentMessage is empty and no event is enabled.
C30_ScenarioCompletes ==
    /\ []((pc = "run" /\ Unguarded) =>
            /\ Fired <= 2 * Len(flows)
            /\ \A i \in 1..Len(flows) : sendCount[i] <= 1 /\ recvCount[i] <= 1
            /\ (Fired = 2 * Len(flows) => Final)
            /\ (Fired < 2 * Len(flows) => EnabledEvents # {}))
    /\ ((pc = "run" /\ Unguarded) ~> (Unguarded /\ Final))

C30_Witness ==
    /\ pc = "run" /\ Unguarded
    /\ Len(flows) >= 2
    /\ Final

====
